---- MODULE Spec2Model ----
(***************************************************************************)
(* HEPiC communications core: the control client (KlipperWorker, a        *)
(* reconnecting JSON-RPC-over-WebSocket session) and the telemetry client  *)
(* (TCPClient, a reconnecting newline-delimited JSON stream consumer).     *)
(*                                                                         *)
(* Both clients are asyncio coroutines on one cooperative event loop: an   *)
(* action of this module is the code that runs between two await points.   *)
(***************************************************************************)
EXTENDS Integers, Sequences, FiniteSets, TLC

\* ------------------------------------------------------------------ bounds
\* asyncio.Queue() is unbounded; the model explores queues up to this length.
MaxQueue == 2
\* query tasks are never cancelled by the code; the count saturates here.
MaxPollTasks == 2
\* number of stop() calls explored per client.
MaxStops == 2

\* ------------------------------------------------------- control client state
VARIABLES
    k_pc,                 \* position of KlipperWorker.run
    k_is_running,         \* self.is_running
    message_queue,        \* self.message_queue (decoded frames and outbound requests)
    listener_task,        \* self.listener_task
    processor_task,       \* self.processor_task
    query_tasks,          \* number of live query_klipper tasks (self.query_task is overwritten)
    websocket,            \* state of the websocket of the current `async with`
    published,            \* the data fields of _init_data
    k_emitted,            \* the Qt signals emitted by the latest step, in order
    k_stop_calls,         \* number of stop() calls made
    k_raised,             \* an API call of the control client raised
    ws_subscribed         \* a subscribe request was written to the current websocket

kvars == <<k_pc, k_is_running, message_queue, listener_task, processor_task,
           query_tasks, websocket, published, k_emitted, k_stop_calls, k_raised,
           ws_subscribed>>

\* ----------------------------------------------------- telemetry client state
VARIABLES
    t_pc,                    \* position of TCPClient.run
    t_is_running,            \* self.is_running
    writer,                  \* self.writer: "unset" until the first connection
    receive_task,            \* self.receive_task: "unset" until the first session
    process_task,            \* self.process_task
    queue,                   \* self.queue
    extrusion_force_raw,
    extrusion_force_offset,
    extrusion_force,
    meter_count_raw,
    meter_count_offset,
    meter_count,
    meter_count_cache,       \* deque(maxlen=cache_size)
    time_cache,              \* deque(maxlen=cache_size)
    filament_velocity,
    now,                     \* the reading of time.time()
    t_emitted,               \* the Qt signals emitted by the latest step, in order
    t_stop_calls,            \* number of stop() calls made
    t_raised                 \* an API call of the telemetry client raised

tlife == <<t_pc, t_is_running, writer, receive_task, process_task>>

tdata == <<extrusion_force_raw, extrusion_force_offset, extrusion_force,
           meter_count_raw, meter_count_offset, meter_count,
           meter_count_cache, time_cache, filament_velocity>>

tvars == <<tlife, queue, tdata, now, t_emitted, t_stop_calls, t_raised>>

VARIABLES
    host,                 \* MainWindow.host
    test_calls,           \* connection_test tasks scheduled by update_host_and_connect
    testers,              \* the ConnectionTester objects created so far, in order
    connect_calls,        \* connect_to_ip tasks scheduled by a success signal
    clients               \* the client pairs created and started by connect_to_ip

cvars == <<host, test_calls, testers, connect_calls, clients>>

VARIABLES
    mapper_pc,            \* "init" in __init__, "built" after it, "queried" after a call
    gcode_content,        \* GcodePositionMapper.gcode_content, a sequence of characters
    line_start_offsets,   \* self.line_start_offsets
    total_lines,          \* self.total_lines
    total_bytes,          \* self.total_bytes, set by _build_map
    target_byte_position, \* the argument of the latest get_line_number call
    line_number           \* the value that call returned

gvars == <<mapper_pc, gcode_content, line_start_offsets, total_lines, total_bytes,
           target_byte_position, line_number>>

VARIABLES
    local_file,           \* the file at file_path: "present" or "absent"
    files_written,        \* G-code files put at file_path so far
    upload_result         \* how the latest upload_gcode_to_klipper call ended

uvars == <<local_file, files_written, upload_result>>

vars == <<kvars, tvars, cvars, gvars, uvars>>

Min(a, b) == IF a <= b THEN a ELSE b

\* -------------------------------------------------------------- JSON values
\* A decoded JSON value is a record tagged with its JSON type; a JSON object
\* carries its keys as further fields, so that Python's `key in data` is
\* `key \in DOMAIN data`. Numbers that are only copied, never computed with,
\* are kept as their text.

\* the first line of a G-code text
FirstLine(text) ==
    CASE text = "G28\nG1 X10 F300" -> "G28"
      [] OTHER -> text

\* GcodeMessage carrying the first line of the text only
GcodeMessage_FirstLine(script) ==
    [json |-> "object", jsonrpc |-> "2.0", id |-> 3,
     method |-> "printer.gcode.script", params |-> [script |-> FirstLine(script)]]

\* KlipperWorker.send_gcode builds this request
GcodeMessage(script) ==
    [json |-> "object", jsonrpc |-> "2.0", id |-> 3,
     method |-> "printer.gcode.script", params |-> [script |-> script]]

\* f"M104 S{target}"
M104Script(target) ==
    CASE target = 200 -> "M104 S200"
      [] target = 0   -> "M104 S0"

\* KlipperWorker.set_temperature builds this request
TemperatureMessage(target) ==
    [json |-> "object", jsonrpc |-> "2.0", id |-> 104,
     method |-> "printer.gcode.script", params |-> [script |-> M104Script(target)]]

\* KlipperWorker.emergency_stop builds this request
EmergencyStopPayload ==
    [json |-> "object", jsonrpc |-> "2.0", method |-> "printer.emergency_stop", id |-> 0]

\* KlipperWorker.query_klipper builds this request
QueryMsg ==
    [json |-> "object", jsonrpc |-> "2.0", method |-> "printer.objects.query",
     params |-> [objects |-> {"extruder", "motion_report", "virtual_sdcard"}], id |-> 2]

\* KlipperWorker.subscribe_printer_status builds this request
SubscribeMessage ==
    [json |-> "object", jsonrpc |-> "2.0", method |-> "printer.objects.subscribe",
     params |-> [objects |-> {"extruder", "print_stats", "motion_report",
                              "toolhead", "virtual_sdcard"}], id |-> 1]

\* the methods data_processor forwards to the websocket
OutboundMethods ==
    {"printer.gcode.script", "printer.objects.subscribe",
     "printer.objects.query", "printer.emergency_stop"}

\* _init_data
InitData ==
    [active_feedrate_mms |-> "0", hotend_temperature |-> "nan",
     target_hotend_temperature |-> "nan", progress |-> "0.0", file_position |-> "0"]

\* ------------------------------------------------- frames sent by the peer
\* What the websocket can deliver: frame 1 is not JSON at all, the others are
\* the JSON-RPC shapes of Moonraker and ill-shaped variants of them.
PeerFrameIds == 1..12

PeerFrame(i) ==
    CASE i = 1 -> [json |-> "invalid"]
      [] i = 2 -> [json |-> "object", jsonrpc |-> "2.0",
                   method |-> "notify_gcode_response", params |-> <<"// ok">>]
      [] i = 3 -> [json |-> "object", jsonrpc |-> "2.0",
                   method |-> "notify_gcode_response"]
      [] i = 4 -> [json |-> "object", jsonrpc |-> "2.0", id |-> 3,
                   error |-> [code |-> "-32601", message |-> "Method not found"]]
      [] i = 5 -> [json |-> "object", jsonrpc |-> "2.0", id |-> 3,
                   error |-> [message |-> "Method not found"]]
      [] i = 6 -> [json |-> "number"]
      [] i = 7 -> [json |-> "array"]
      [] i = 8 -> [json |-> "object", jsonrpc |-> "2.0",
                   method |-> "notify_status_update",
                   params |-> <<[extruder |-> [temperature |-> "205.3"]]>>]
      [] i = 9 -> [json |-> "object", jsonrpc |-> "2.0", id |-> 2,
                   result |-> [json |-> "object", status |->
                      [extruder |-> [temperature |-> "205.3", target |-> "210.0"],
                       motion_report |-> [live_extruder_velocity |-> "1.5"],
                       virtual_sdcard |-> [progress |-> "0.5", file_position |-> "120"]]]]
      [] i = 10 -> [json |-> "object", jsonrpc |-> "2.0", id |-> 2,
                    result |-> [json |-> "object", status |->
                       [extruder |-> [temperature |-> "0"]]]]
      [] i = 11 -> [json |-> "object", jsonrpc |-> "2.0", id |-> 3,
                    result |-> [json |-> "string"]]
      [] i = 12 -> [json |-> "object", jsonrpc |-> "2.0", id |-> 104,
                    error |-> [code |-> "400", message |-> "Invalid params"]]
      [] i = 13 -> [json |-> "object", jsonrpc |-> "2.0", id |-> 7,
                    method |-> "printer.gcode.script", params |-> [script |-> "M112"]]

\* json.loads(message) raises JSONDecodeError
JSONDecodeError(message) == message.json = "invalid"

\* Python's `key in data`: a TypeError for a number or null, a membership
\* test on the elements for an array, a key test for an object
InRaises(data) == data.json \in {"number", "null"}

In(key, data) == data.json = "object" /\ key \in DOMAIN data

\* dict.get(key, default); {} is the empty function
Get(d, key, default) == IF key \in DOMAIN d THEN d[key] ELSE default

EmptyDict == <<>>

\* ---------------------------------------------------- data_processor branches
\* the branch of data_processor's if/elif chain that handles `data`
Branch(data) ==
    IF InRaises(data) THEN "TypeError"
    ELSE IF In("method", data) THEN
        IF data.method \in OutboundMethods THEN "send"
        ELSE IF data.method = "notify_gcode_response" THEN "response"
        ELSE "debug"
    ELSE IF In("error", data) THEN "error"
    ELSE IF In("result", data) THEN "result"
    ELSE "debug"

\* data.get("params")[0] raises when params is absent (None[0]) or empty
ResponseRaises(data) ==
    ~In("params", data) \/ Len(data.params) = 0

\* data["error"]["code"], data["error"]["message"] raise KeyError when absent
ErrorRaises(data) ==
    ~({"code", "message"} \subseteq DOMAIN data.error)

\* f"Error {code}: {message}"
ErrMsg(data) == <<"Error ", data.error.code, ": ", data.error.message>>

\* the result branch reads the payload only for id == 2
IsQueryResult(data) == In("id", data) /\ data.id = 2

\* data.get("result", {}).get("status", {}) raises AttributeError on a non-dict
ResultRaises(data) == IsQueryResult(data) /\ data.result.json # "object"

\* the five assignments of the id == 2 branch
QueryResult(data) ==
    LET sub_msg == Get(data.result, "status", EmptyDict)
        extruder == Get(sub_msg, "extruder", EmptyDict)
        motion == Get(sub_msg, "motion_report", EmptyDict)
        sdcard == Get(sub_msg, "virtual_sdcard", EmptyDict)
    IN  [hotend_temperature |-> Get(extruder, "temperature", "nan"),
         target_hotend_temperature |-> Get(extruder, "target", "nan"),
         active_feedrate_mms |-> Get(motion, "live_extruder_velocity", "None"),
         progress |-> Get(sdcard, "progress", "None"),
         file_position |-> Get(sdcard, "file_position", "None")]

\* websocket.send raises ConnectionClosed unless the connection is open
SendRaises == websocket # "open"

\* the handling of `data` raises, which ends the processor task
Raises(data) ==
    LET b == Branch(data) IN
    \/ b = "TypeError"
    \/ b = "send" /\ SendRaises
    \/ b = "response" /\ ResponseRaises(data)
    \/ b = "error" /\ ErrorRaises(data)
    \/ b = "result" /\ ResultRaises(data)

\* ------------------------------------------------------------ asyncio.Queue
\* Put with the new item placed in front of the waiting ones
Put_Front(q, item) == <<item>> \o q

\* queue.put(item) on an unbounded asyncio.Queue: first in, first out
Put(q, item) == Append(q, item)

\* ------------------------------------------------------- values of the inputs
GcodeTexts == {"G28\nG1 X10 F300"}
Targets == {200}

\* signal.emit(value): one emission of a Qt signal
Emit(signal, value) == [signal |-> signal, value |-> value]

\* the texts emitted on KlipperWorker.connection_status
StatusConnecting == Emit("connection_status", <<"connecting to Klipper ...">>)
StatusConnected  == Emit("connection_status", <<"Klipper connected">>)
StatusTimeout    == Emit("connection_status", <<"Klipper connection timed out">>)
StatusReconnect  == Emit("connection_status", <<"disconnected, reconnecting in 3 s ...">>)

\* ------------------------------------------------------------ KlipperWorker
KInit ==
    /\ k_pc = "idle"
    /\ k_is_running = TRUE
    /\ message_queue = <<>>
    /\ listener_task = "None"
    /\ processor_task = "None"
    /\ query_tasks = 0
    /\ websocket = "None"
    /\ published = InitData
    /\ k_emitted = <<>>
    /\ k_stop_calls = 0
    /\ k_raised = FALSE
    /\ ws_subscribed = FALSE

\* `while self.is_running:` and the body up to `await websockets.connect(...)`,
\* run after the emissions `before` of the same step
K_LoopTop(before) ==
    IF k_is_running
    THEN k_pc' = "connecting" /\ k_emitted' = before \o <<StatusConnecting>>
    ELSE k_pc' = "done" /\ k_emitted' = before

\* the code after the try statement: `if self.is_running:` emit and sleep(3);
\* otherwise control is back at the `while`, which ends run
K_AfterTry(before) ==
    IF k_is_running
    THEN k_pc' = "sleep" /\ k_emitted' = before \o <<StatusReconnect>>
    ELSE k_pc' = "done" /\ k_emitted' = before

\* run() is called
K_Run ==
    /\ k_pc = "idle"
    /\ K_LoopTop(<<>>)
    /\ UNCHANGED <<k_is_running, message_queue, listener_task, processor_task,
                   query_tasks, websocket, published, k_stop_calls, k_raised, ws_subscribed,
                   tvars, cvars, gvars, uvars>>

\* websockets.connect succeeds: the queue is emptied and the three tasks created
K_Connected ==
    /\ k_pc = "connecting"
    /\ k_pc' = "active"
    /\ k_emitted' = <<StatusConnected>>
    /\ message_queue' = <<>>
    /\ listener_task' = "running"
    /\ processor_task' = "running"
    /\ query_tasks' = Min(query_tasks + 1, MaxPollTasks)
    /\ websocket' = "open"
    /\ ws_subscribed' = FALSE
    /\ UNCHANGED <<k_is_running, published, k_stop_calls, k_raised,
                   tvars, cvars, gvars, uvars>>

\* websockets.connect raises ConnectionRefusedError: logged only
K_ConnectionRefused ==
    /\ k_pc = "connecting"
    /\ K_AfterTry(<<>>)
    /\ UNCHANGED <<k_is_running, message_queue, listener_task, processor_task,
                   query_tasks, websocket, published, k_stop_calls, k_raised, ws_subscribed,
                   tvars, cvars, gvars, uvars>>

\* K_ConnectTimeout without the `except TimeoutError` clause: run ends
K_ConnectTimeout_Uncaught ==
    /\ k_pc = "connecting"
    /\ k_pc' = "done"
    /\ k_emitted' = <<>>
    /\ UNCHANGED <<k_is_running, message_queue, listener_task, processor_task,
                   query_tasks, websocket, published, k_stop_calls, k_raised, ws_subscribed,
                   tvars, cvars, gvars, uvars>>

\* websockets.connect raises TimeoutError after open_timeout: logged and emitted
K_ConnectTimeout ==
    /\ k_pc = "connecting"
    /\ K_AfterTry(<<StatusTimeout>>)
    /\ UNCHANGED <<k_is_running, message_queue, listener_task, processor_task,
                   query_tasks, websocket, published, k_stop_calls, k_raised, ws_subscribed,
                   tvars, cvars, gvars, uvars>>

\* the peer closes the connection: `async for message in websocket` ends, or
\* raises ConnectionClosed, which message_listener catches; the listener returns
K_ConnectionClosed ==
    /\ websocket = "open"
    /\ websocket' = "closed"
    /\ listener_task' = IF listener_task = "running" THEN "done" ELSE listener_task
    /\ k_emitted' = <<>>
    /\ UNCHANGED <<k_pc, k_is_running, message_queue, processor_task, query_tasks,
                   published, k_stop_calls, k_raised, ws_subscribed,
                   tvars, cvars, gvars, uvars>>

\* task.cancel(): a task that is done stays as it is
Cancel(task) == IF task = "running" THEN "cancelled" ELSE task

\* asyncio.wait returns once the listener or the processor is done: the pending
\* task is cancelled, `async with` closes the websocket
K_WaitReturns ==
    /\ k_pc = "active"
    /\ listener_task # "running" \/ processor_task # "running"
    /\ listener_task' = Cancel(listener_task)
    /\ processor_task' = Cancel(processor_task)
    /\ websocket' = "closed"
    /\ K_AfterTry(<<>>)
    /\ UNCHANGED <<k_is_running, message_queue, query_tasks, published,
                   k_stop_calls, k_raised, ws_subscribed,
                   tvars, cvars, gvars, uvars>>

\* asyncio.sleep(3) is over: back to the `while`
K_SleepOver ==
    /\ k_pc = "sleep"
    /\ K_LoopTop(<<>>)
    /\ UNCHANGED <<k_is_running, message_queue, listener_task, processor_task,
                   query_tasks, websocket, published, k_stop_calls, k_raised, ws_subscribed,
                   tvars, cvars, gvars, uvars>>

\* message_listener, one frame: decoded and queued, or logged and dropped
K_MessageListener(message) ==
    /\ listener_task = "running"
    /\ websocket = "open"
    /\ Len(message_queue) < MaxQueue
    /\ message_queue' = IF JSONDecodeError(message) THEN message_queue
                        ELSE Put(message_queue, message)
    /\ k_emitted' = <<>>
    /\ UNCHANGED <<k_pc, k_is_running, listener_task, processor_task, query_tasks,
                   websocket, published, k_stop_calls, k_raised, ws_subscribed,
                   tvars, cvars, gvars, uvars>>

\* ProcessorEmits with the error branch emitting on connection_status only
ProcessorEmits_StatusOnly(data) ==
    LET b == Branch(data) IN
    IF Raises(data) THEN <<>>
    ELSE IF b = "response" THEN <<Emit("gcode_response", <<data.params[1]>>)>>
    ELSE IF b = "error" THEN <<Emit("connection_status", ErrMsg(data))>>
    ELSE <<>>

\* the signals data_processor emits for `data`
ProcessorEmits(data) ==
    LET b == Branch(data) IN
    IF Raises(data) THEN <<>>
    ELSE IF b = "response" THEN <<Emit("gcode_response", <<data.params[1]>>)>>
    ELSE IF b = "error" THEN <<Emit("gcode_error", ErrMsg(data)),
                               Emit("connection_status", ErrMsg(data))>>
    ELSE <<>>

\* the data fields after data_processor has handled `data`
ProcessorPublishes(data) ==
    IF Branch(data) = "result" /\ ~Raises(data) /\ IsQueryResult(data)
    THEN QueryResult(data) ELSE published

\* `await websocket.send(json.dumps(data))` writes a subscribe request
WritesSubscribe(data) ==
    /\ Branch(data) = "send"
    /\ ~SendRaises
    /\ data.method = "printer.objects.subscribe"

\* `await websocket.send(json.dumps(data))` is reached and writes `data`
WrittenToSocket(data) == Branch(data) = "send" /\ ~SendRaises

\* data_processor, one queue item
K_DataProcessor ==
    /\ processor_task = "running"
    /\ message_queue # <<>>
    /\ LET data == Head(message_queue)
       IN  /\ message_queue' = Tail(message_queue)
           /\ processor_task' = IF Raises(data) THEN "failed" ELSE "running"
           /\ k_emitted' = ProcessorEmits(data)
           /\ published' = ProcessorPublishes(data)
           /\ ws_subscribed' = (ws_subscribed \/ WritesSubscribe(data))
    /\ UNCHANGED <<k_pc, k_is_running, listener_task, query_tasks, websocket,
                   k_stop_calls, k_raised,
                   tvars, cvars, gvars, uvars>>

\* message_queue.put(message) by one of the command slots or the query task
K_Put(message) ==
    /\ Len(message_queue) < MaxQueue
    /\ message_queue' = Put(message_queue, message)
    /\ k_emitted' = <<>>
    /\ UNCHANGED <<k_pc, k_is_running, listener_task, processor_task, query_tasks,
                   websocket, published, k_stop_calls, k_raised, ws_subscribed,
                   tvars, cvars, gvars, uvars>>

\* send_gcode(gcode); self.gcode is written and never read, and is left out
K_SendGcode(text) == K_Put(GcodeMessage(text))

\* restart_firmware()
K_RestartFirmware == K_SendGcode("FIRMWARE_RESTART")

\* set_temperature(target)
K_SetTemperature(target) == K_Put(TemperatureMessage(target))

\* emergency_stop()
K_EmergencyStop == K_Put(EmergencyStopPayload)

\* subscribe_printer_status(): neither run nor the main window calls it, only
\* the test routine of the module does, so it is no step of KNext
K_SubscribePrinterStatus == K_Put(SubscribeMessage)

\* query_klipper, one round of a live query task
K_QueryKlipper == query_tasks > 0 /\ K_Put(QueryMsg)

\* `if self.listener_task:` decides whether stop() calls task.cancel()
K_CancelCalled(task) == task # "None"

\* None.cancel() raises AttributeError
K_StopRaises ==
    \E task \in {listener_task, processor_task} : K_CancelCalled(task) /\ task = "None"

\* stop()
K_Stop ==
    /\ k_stop_calls < MaxStops
    /\ k_stop_calls' = k_stop_calls + 1
    /\ k_is_running' = FALSE
    /\ listener_task' = IF K_CancelCalled(listener_task)
                        THEN Cancel(listener_task) ELSE listener_task
    /\ processor_task' = IF K_CancelCalled(processor_task)
                         THEN Cancel(processor_task) ELSE processor_task
    /\ k_raised' = (k_raised \/ K_StopRaises)
    /\ k_emitted' = <<>>
    /\ UNCHANGED <<k_pc, message_queue, query_tasks, websocket, published,
                   ws_subscribed,
                   tvars, cvars, gvars, uvars>>

\* the steps of run and stop(), and the peer closing the connection
KLifecycle ==
    \/ K_Run
    \/ K_Connected
    \/ K_ConnectionRefused
    \/ K_ConnectTimeout
    \/ K_ConnectionClosed
    \/ K_WaitReturns
    \/ K_SleepOver
    \/ K_Stop

KNext ==
    \/ KLifecycle
    \/ \E i \in PeerFrameIds : K_MessageListener(PeerFrame(i))
    \/ K_DataProcessor
    \/ \E text \in GcodeTexts : K_SendGcode(text)
    \/ K_RestartFirmware
    \/ \E target \in Targets : K_SetTemperature(target)
    \/ K_EmergencyStop
    \/ K_QueryKlipper

\* ---------------------------------------------------------------- floats
\* A float is NaN or the exact ratio num/den; den = 0 is an infinity.
F(n) == [nan |-> FALSE, num |-> n, den |-> 1]

NaN == [nan |-> TRUE, num |-> 0, den |-> 1]

\* a - b for floats of denominator 1
Sub(a, b) == IF a.nan \/ b.nan THEN NaN ELSE F(a.num - b.num)

\* rotary_encoder_steps_total
steps_total == 1000

\* rotary_encoder_wheel_diameter, 28.6 mm, in tenths of a millimetre
wheel_diameter_tenths == 286

\* (raw - offset) / steps_total * pi * wheel_diameter, in units of pi mm
MeterCount(raw, offset) ==
    IF raw.nan \/ offset.nan THEN NaN
    ELSE [nan |-> FALSE, num |-> (raw.num - offset.num) * wheel_diameter_tenths,
          den |-> steps_total * 10]

\* meter_count_cache_size, the capacity of the two deques
cache_size == 2

\* largest reading of time.time() explored
MaxTime == 2

\* DequeAppend that drops the new entry when the deque is full
DequeAppend_KeepsOldest(d, x) ==
    IF Len(d) < cache_size THEN Append(d, x) ELSE d

\* deque.append with maxlen: the oldest entry is dropped from a full deque
DequeAppend(d, x) ==
    IF Len(d) < cache_size THEN Append(d, x) ELSE Append(Tail(d), x)

\* delta_meter / delta_time raises ZeroDivisionError: both are Python floats
\* (json numbers, np.pi and time.time() are), not numpy scalars
VelocityRaises(times) == times[cache_size] - times[1] = 0

\* delta_meter / delta_time for a delta_time that is not 0
Velocity(counts, times) ==
    LET newest == counts[cache_size]
        oldest == counts[1]
        delta_time == times[cache_size] - times[1]
    IN  IF newest.nan \/ oldest.nan THEN NaN
        ELSE [nan |-> FALSE, num |-> newest.num - oldest.num,
              den |-> newest.den * delta_time]

\* ------------------------------------------------ lines sent by the peer
\* What readline() can give: a line that is not JSON, the empty line of a
\* closed connection, a ConnectionResetError, and JSON values.
LineIds == 1..9

Line(i) ==
    CASE i = 1 -> [json |-> "invalid"]
      [] i = 2 -> [json |-> "eof"]
      [] i = 3 -> [json |-> "reset"]
      [] i = 4 -> [json |-> "object", extrusion_force |-> 10]
      [] i = 5 -> [json |-> "object", extrusion_force |-> 12]
      [] i = 6 -> [json |-> "object", meter_count |-> 0]
      [] i = 7 -> [json |-> "object", meter_count |-> 1000]
      [] i = 8 -> [json |-> "object", extrusion_force |-> 12, meter_count |-> 2000]
      [] i = 9 -> [json |-> "number"]

\* the texts emitted on TCPClient.connection_status
StatusReconnected == Emit("connection_status", <<"hepic_server reconnected">>)
StatusLost        == Emit("connection_status", <<"connection lost">>)
StatusCountdown(n) ==
    Emit("connection_status",
         CASE n = 3 -> <<"hepic_server down, reconnecting in 3 s ...">>
           [] n = 2 -> <<"hepic_server down, reconnecting in 2 s ...">>
           [] n = 1 -> <<"hepic_server down, reconnecting in 1 s ...">>)

\* ----------------------------------------------------------------- TCPClient
TInit ==
    /\ t_pc = "idle"
    /\ t_is_running = TRUE
    /\ writer = "unset"
    /\ receive_task = "unset"
    /\ process_task = "unset"
    /\ queue = <<>>
    /\ extrusion_force_raw = NaN
    /\ extrusion_force_offset = F(0)
    /\ extrusion_force = NaN
    /\ meter_count_raw = NaN
    /\ meter_count_offset = F(0)
    /\ meter_count = NaN
    /\ meter_count_cache = <<>>
    /\ time_cache = <<>>
    /\ filament_velocity = F(0)
    /\ now = 0
    /\ t_emitted = <<>>
    /\ t_stop_calls = 0
    /\ t_raised = FALSE

\* T_LoopTop with `while True:`
T_LoopTop_NoCheck == t_pc' = "connecting"

\* `while self.is_running:` up to `await asyncio.wait_for(open_connection ...)`
T_LoopTop == t_pc' = IF t_is_running THEN "connecting" ELSE "done"

\* the code after the try statement: the countdown starts, or the `while` ends run
T_AfterTry ==
    IF t_is_running
    THEN t_pc' = "sleep3" /\ t_emitted' = <<StatusCountdown(3)>>
    ELSE t_pc' = "done" /\ t_emitted' = <<>>

\* run() is called
T_Run ==
    /\ t_pc = "idle"
    /\ T_LoopTop
    /\ t_emitted' = <<>>
    /\ UNCHANGED <<t_is_running, writer, receive_task, process_task, queue, tdata,
                   now, t_stop_calls, t_raised,
                   kvars, cvars, gvars, uvars>>

\* send_data returns at once, writing nothing, when the client is stopped
SendDataSkips == ~t_is_running

\* T_Connected without send_data("start"): the tasks are created at once
T_Connected_NoStart ==
    /\ t_pc = "connecting"
    /\ writer' = "open"
    /\ t_emitted' = <<StatusReconnected>>
    /\ t_pc' = "streaming"
    /\ receive_task' = "running"
    /\ process_task' = "running"
    /\ UNCHANGED <<t_is_running, queue, tdata, now, t_stop_calls, t_raised,
                   kvars, cvars, gvars, uvars>>

\* open_connection succeeds: status, then send_data("start"); when send_data
\* skips the write the two tasks are created in the same step
T_Connected ==
    /\ t_pc = "connecting"
    /\ writer' = "open"
    /\ t_emitted' = <<StatusReconnected>>
    /\ IF SendDataSkips
       THEN t_pc' = "streaming" /\ receive_task' = "running" /\ process_task' = "running"
       ELSE t_pc' = "drain" /\ UNCHANGED <<receive_task, process_task>>
    /\ UNCHANGED <<t_is_running, queue, tdata, now, t_stop_calls, t_raised,
                   kvars, cvars, gvars, uvars>>

\* writer.write / writer.drain of the start line succeed: the tasks are created
T_StartSent ==
    /\ t_pc = "drain"
    /\ t_pc' = "streaming"
    /\ receive_task' = "running"
    /\ process_task' = "running"
    /\ t_emitted' = <<>>
    /\ UNCHANGED <<t_is_running, writer, queue, tdata, now, t_stop_calls, t_raised,
                   kvars, cvars, gvars, uvars>>

\* writer.write / writer.drain raise: send_data clears is_running and returns
T_StartFails ==
    /\ t_pc = "drain"
    /\ t_is_running' = FALSE
    /\ t_pc' = "streaming"
    /\ receive_task' = "running"
    /\ process_task' = "running"
    /\ t_emitted' = <<>>
    /\ UNCHANGED <<writer, queue, tdata, now, t_stop_calls, t_raised,
                   kvars, cvars, gvars, uvars>>

\* `self.writer.close()` in the finally clause raises AttributeError when no
\* connection was ever opened
FinallyRaises == writer = "unset"

\* T_ConnectFails that also clears is_running of the control client
T_ConnectFails_StopsBoth ==
    /\ t_pc = "connecting"
    /\ IF FinallyRaises
       THEN t_pc' = "crashed" /\ t_emitted' = <<>>
       ELSE T_AfterTry
    /\ k_is_running' = FALSE
    /\ UNCHANGED <<t_is_running, writer, receive_task, process_task, queue, tdata,
                   now, t_stop_calls, t_raised,
                   k_pc, message_queue, listener_task, processor_task, query_tasks,
                   websocket, published, k_emitted, k_stop_calls, k_raised,
                   ws_subscribed, cvars, gvars, uvars>>

\* open_connection raises (refused) or wait_for times out: `except Exception`
\* logs it, then the finally clause closes self.writer
T_ConnectFails ==
    /\ t_pc = "connecting"
    /\ IF FinallyRaises
       THEN t_pc' = "crashed" /\ t_emitted' = <<>>
       ELSE T_AfterTry
    /\ UNCHANGED <<t_is_running, writer, receive_task, process_task, queue, tdata,
                   now, t_stop_calls, t_raised,
                   kvars, cvars, gvars, uvars>>

\* receive_data or process_data finds is_running false at its `while`
T_ReceiveExits ==
    /\ receive_task = "running"
    /\ ~t_is_running
    /\ receive_task' = "done"
    /\ t_emitted' = <<>>
    /\ UNCHANGED <<t_pc, t_is_running, writer, process_task, queue, tdata, now,
                   t_stop_calls, t_raised,
                   kvars, cvars, gvars, uvars>>

T_ProcessExits ==
    /\ process_task = "running"
    /\ ~t_is_running
    /\ process_task' = "done"
    /\ t_emitted' = <<>>
    /\ UNCHANGED <<t_pc, t_is_running, writer, receive_task, queue, tdata, now,
                   t_stop_calls, t_raised,
                   kvars, cvars, gvars, uvars>>

\* json.loads raises on a line that is not JSON and on the empty line of EOF
LineRaises(line) == line.json \in {"invalid", "eof", "reset"}

\* receive_data, one readline(): the value is queued; any exception ends the task
T_ReceiveData(line) ==
    /\ receive_task = "running"
    /\ t_is_running
    /\ writer = "open"
    /\ Len(queue) < MaxQueue
    /\ receive_task' = IF LineRaises(line) THEN "done" ELSE "running"
    /\ queue' = IF LineRaises(line) THEN queue ELSE Put(queue, line)
    /\ t_emitted' = IF line.json = "reset" THEN <<StatusLost>> ELSE <<>>
    /\ UNCHANGED <<t_pc, t_is_running, writer, process_task, tdata, now,
                   t_stop_calls, t_raised,
                   kvars, cvars, gvars, uvars>>

\* compute_filament_velocity after meter_count became `count`
CacheAfter(count) == DequeAppend(meter_count_cache, count)

TimesAfter == DequeAppend(time_cache, now)

\* the except clause around the division only logs: the velocity stays
VelocityAfter(count) ==
    IF Len(CacheAfter(count)) = cache_size
    THEN IF VelocityRaises(TimesAfter) THEN filament_velocity
         ELSE Velocity(CacheAfter(count), TimesAfter)
    ELSE F(0)

\* process_data, one queue item; `key in message_dict` raises on a number, the
\* inner except logs it and the loop goes on
T_ProcessData ==
    /\ process_task = "running"
    /\ t_is_running
    /\ queue # <<>>
    /\ LET message_dict == Head(queue)
           has_force == In("extrusion_force", message_dict)
           has_count == In("meter_count", message_dict)
           raw == F(message_dict.meter_count)
           count == MeterCount(raw, meter_count_offset)
       IN  /\ queue' = Tail(queue)
           /\ IF has_force
              THEN /\ extrusion_force_raw' = F(message_dict.extrusion_force)
                   /\ extrusion_force' = Sub(F(message_dict.extrusion_force),
                                             extrusion_force_offset)
              ELSE UNCHANGED <<extrusion_force_raw, extrusion_force>>
           /\ IF has_count
              THEN /\ meter_count_raw' = raw
                   /\ meter_count' = count
                   /\ meter_count_cache' = CacheAfter(count)
                   /\ time_cache' = TimesAfter
                   /\ filament_velocity' = VelocityAfter(count)
              ELSE UNCHANGED <<meter_count_raw, meter_count, meter_count_cache,
                               time_cache, filament_velocity>>
    /\ t_emitted' = <<>>
    /\ UNCHANGED <<tlife, extrusion_force_offset, meter_count_offset, now,
                   t_stop_calls, t_raised,
                   kvars, cvars, gvars, uvars>>

\* T_WaitReturns without the clean-up: no task is cancelled, the writer stays
T_WaitReturns_NoCleanup ==
    /\ t_pc = "streaming"
    /\ receive_task # "running" \/ process_task # "running"
    /\ T_AfterTry
    /\ UNCHANGED <<t_is_running, writer, receive_task, process_task, queue, tdata,
                   now, t_stop_calls, t_raised,
                   kvars, cvars, gvars, uvars>>

\* asyncio.wait returns once a task is done: the pending one is cancelled and
\* the finally clause closes the writer
T_WaitReturns ==
    /\ t_pc = "streaming"
    /\ receive_task # "running" \/ process_task # "running"
    /\ receive_task' = Cancel(receive_task)
    /\ process_task' = Cancel(process_task)
    /\ writer' = "closed"
    /\ T_AfterTry
    /\ UNCHANGED <<t_is_running, queue, tdata, now, t_stop_calls, t_raised,
                   kvars, cvars, gvars, uvars>>

\* T_Sleep with a single sleep between the first message and the next attempt
T_Sleep_Once ==
    /\ t_pc \in {"sleep3", "sleep2", "sleep1"}
    /\ T_LoopTop
    /\ t_emitted' = <<>>
    /\ UNCHANGED <<t_is_running, writer, receive_task, process_task, queue, tdata,
                   now, t_stop_calls, t_raised,
                   kvars, cvars, gvars, uvars>>

\* one asyncio.sleep(1) of the countdown is over
T_Sleep ==
    /\ t_pc \in {"sleep3", "sleep2", "sleep1"}
    /\ CASE t_pc = "sleep3" -> t_pc' = "sleep2" /\ t_emitted' = <<StatusCountdown(2)>>
         [] t_pc = "sleep2" -> t_pc' = "sleep1" /\ t_emitted' = <<StatusCountdown(1)>>
         [] t_pc = "sleep1" -> T_LoopTop /\ t_emitted' = <<>>
    /\ UNCHANGED <<t_is_running, writer, receive_task, process_task, queue, tdata,
                   now, t_stop_calls, t_raised,
                   kvars, cvars, gvars, uvars>>

\* T_HasAttr without the hasattr guards
T_HasAttr_Unguarded(attribute) == TRUE

\* `hasattr(self, 'receive_task')` and its like decide whether stop() uses
\* the attribute
T_HasAttr(attribute) == attribute # "unset"

\* the use of an attribute that was never set raises AttributeError
T_StopRaises ==
    \E attribute \in {receive_task, process_task, writer} :
        T_HasAttr(attribute) /\ attribute = "unset"

\* stop() that also sets both offsets back to 0
T_Stop_ClearsOffsets ==
    /\ t_stop_calls < MaxStops
    /\ t_stop_calls' = t_stop_calls + 1
    /\ t_is_running' = FALSE
    /\ receive_task' = IF T_HasAttr(receive_task)
                       THEN Cancel(receive_task) ELSE receive_task
    /\ process_task' = IF T_HasAttr(process_task)
                       THEN Cancel(process_task) ELSE process_task
    /\ writer' = IF T_HasAttr(writer) /\ writer = "open" THEN "closed" ELSE writer
    /\ t_raised' = (t_raised \/ T_StopRaises)
    /\ t_emitted' = <<>>
    /\ extrusion_force_offset' = F(0)
    /\ meter_count_offset' = F(0)
    /\ UNCHANGED <<t_pc, queue, extrusion_force_raw, extrusion_force,
                   meter_count_raw, meter_count, meter_count_cache, time_cache,
                   filament_velocity, now,
                   kvars, cvars, gvars, uvars>>

\* stop()
T_Stop ==
    /\ t_stop_calls < MaxStops
    /\ t_stop_calls' = t_stop_calls + 1
    /\ t_is_running' = FALSE
    /\ receive_task' = IF T_HasAttr(receive_task)
                       THEN Cancel(receive_task) ELSE receive_task
    /\ process_task' = IF T_HasAttr(process_task)
                       THEN Cancel(process_task) ELSE process_task
    /\ writer' = IF T_HasAttr(writer) /\ writer = "open" THEN "closed" ELSE writer
    /\ t_raised' = (t_raised \/ T_StopRaises)
    /\ t_emitted' = <<>>
    /\ UNCHANGED <<t_pc, queue, tdata, now,
                   kvars, cvars, gvars, uvars>>

\* set_extrusion_force_offset taking the published force, not the raw one
T_SetExtrusionForceOffset_Published ==
    /\ extrusion_force_offset' = extrusion_force
    /\ t_emitted' = <<>>
    /\ UNCHANGED <<tlife, queue, extrusion_force_raw, extrusion_force,
                   meter_count_raw, meter_count_offset, meter_count,
                   meter_count_cache, time_cache, filament_velocity, now,
                   t_stop_calls, t_raised,
                   kvars, cvars, gvars, uvars>>

\* set_extrusion_force_offset(): the raw value is never None, so always taken
T_SetExtrusionForceOffset ==
    /\ extrusion_force_offset' = extrusion_force_raw
    /\ t_emitted' = <<>>
    /\ UNCHANGED <<tlife, queue, extrusion_force_raw, extrusion_force,
                   meter_count_raw, meter_count_offset, meter_count,
                   meter_count_cache, time_cache, filament_velocity, now,
                   t_stop_calls, t_raised,
                   kvars, cvars, gvars, uvars>>

\* set_meter_count_offset()
T_SetMeterCountOffset ==
    /\ meter_count_offset' = meter_count_raw
    /\ t_emitted' = <<>>
    /\ UNCHANGED <<tlife, queue, extrusion_force_raw, extrusion_force_offset,
                   extrusion_force, meter_count_raw, meter_count,
                   meter_count_cache, time_cache, filament_velocity, now,
                   t_stop_calls, t_raised,
                   kvars, cvars, gvars, uvars>>

\* time passes
T_Tick ==
    /\ now < MaxTime
    /\ now' = now + 1
    /\ UNCHANGED <<tlife, queue, tdata, t_emitted, t_stop_calls, t_raised,
                   kvars, cvars, gvars, uvars>>

\* the lines that end a connection: EOF and a reset
ClosingLineIds == {2, 3}

\* the steps of run and stop(), the two tasks ending, the peer closing
TLifecycle ==
    \/ T_Run
    \/ T_Connected
    \/ T_StartSent
    \/ T_StartFails
    \/ T_ConnectFails
    \/ T_ReceiveExits
    \/ T_ProcessExits
    \/ T_WaitReturns
    \/ T_Sleep
    \/ T_Stop
    \/ \E i \in ClosingLineIds : T_ReceiveData(Line(i))

\* the force samples
SampleLineIds == {4, 5}

\* a line that is not JSON, and the force samples
ForceLineIds == {1, 4, 5}

TNext ==
    \/ TLifecycle
    \/ \E i \in ForceLineIds : T_ReceiveData(Line(i))
    \/ T_ProcessData
    \/ T_SetExtrusionForceOffset
    \/ T_SetMeterCountOffset

\* ------------------------------------------------------ connection tester
\* the testers created in one behaviour
MaxTesters == 2

\* the addresses typed into the connection page
Hosts == {"h1", "h2"}

\* the steps of ConnectionTester.run, in the order of the code
ProbeOrder == <<"ping", "port", "moonraker", "klipper">>

\* what the ping subprocess can do: exit 0, exit non-zero, fail to start with
\* FileNotFoundError, or fail to start with another exception (PermissionError)
PingOutcomes == {"exit0", "exit1", "FileNotFoundError", "PermissionError"}

\* _is_host_reachable_async raises: the exception is not one of
\* `except (FileNotFoundError, asyncio.TimeoutError)`
PingRaises(outcome) == outcome \notin {"exit0", "exit1", "FileNotFoundError"}

\* _is_host_reachable_async returns `proc.returncode == 0`, or False from the
\* except clause
IsHostReachable(outcome) == outcome = "exit0"

\* what open_connection under wait_for can do
PortOutcomes == {"connected", "TimeoutError", "OSError"}

\* _check_tcp_port_async
CheckTcpPort(outcome) == outcome = "connected"

\* what GET /server/info can do: answer 200, another status, or raise
MoonrakerOutcomes == {"200", "503", "exception"}

\* _check_moonraker_async
CheckMoonraker(outcome) == outcome = "200"

\* what GET /printer/objects/query?webhooks can do: the state in a 200
\* answer, another status, or raise
KlipperOutcomes == {"ready", "shutdown", "503", "exception"}

\* _check_klipper_async, the first component of its result
CheckKlipper(outcome) == outcome = "ready"

\* ConnectionTester.__init__; `results` are the values the probes returned to
\* run (ping_ok, port_ok, ...), in order
NewTester(h) ==
    [host |-> h, pc |-> "created", probes |-> <<>>, results |-> <<>>,
     test_msg |-> 0, success |-> 0, fail |-> 0]

CInit ==
    /\ host = "h1"
    /\ test_calls = 0
    /\ testers = <<>>
    /\ connect_calls = 0
    /\ clients = <<>>

\* update_host_and_connect: the host is stored and connection_test is scheduled
M_UpdateHostAndConnect(h) ==
    /\ Len(testers) + test_calls < MaxTesters
    /\ host' = h
    /\ test_calls' = test_calls + 1
    /\ UNCHANGED <<testers, connect_calls, clients, kvars, tvars, gvars, uvars>>

\* connection_test up to its await: a tester for the current host is created,
\* its success signal is connected to connect_to_ip, and its run is scheduled
M_ConnectionTest ==
    /\ test_calls > 0
    /\ test_calls' = test_calls - 1
    /\ testers' = Append(testers, NewTester(host))
    /\ UNCHANGED <<host, connect_calls, clients, kvars, tvars, gvars, uvars>>

\* `msgs` progress messages are emitted and the probe `name` is awaited
Started(t, name, msgs) ==
    [t EXCEPT !.pc = name, !.probes = Append(@, name), !.test_msg = @ + msgs]

\* the awaited probe returned True
Passed(t) == [t EXCEPT !.results = Append(@, TRUE)]

\* Failed with the `return` after `self.fail.emit()` left out: the next probe,
\* if there is one, is started
Failed_GoesOn(t, msgs) ==
    IF Len(t.probes) < Len(ProbeOrder)
    THEN [t EXCEPT !.results = Append(@, FALSE),
                   !.pc = ProbeOrder[Len(t.probes) + 1],
                   !.probes = Append(@, ProbeOrder[Len(t.probes) + 1]),
                   !.test_msg = @ + msgs, !.fail = @ + 1]
    ELSE [t EXCEPT !.results = Append(@, FALSE), !.pc = "returned",
                   !.test_msg = @ + msgs, !.fail = @ + 1]

\* the awaited probe returned False: `msgs` progress messages, then
\* `self.fail.emit(); return`
Failed(t, msgs) ==
    [t EXCEPT !.results = Append(@, FALSE), !.pc = "returned",
              !.test_msg = @ + msgs, !.fail = @ + 1]

\* run up to the await of the ping
CT_Run(i) ==
    /\ testers[i].pc = "created"
    /\ testers' = [testers EXCEPT ![i] = Started(@, ProbeOrder[1], 2)]
    /\ UNCHANGED <<host, test_calls, connect_calls, clients, kvars, tvars, gvars, uvars>>

\* the ping returns: step 2 starts, or fail is emitted and run returns
CT_PingReturns(i, outcome) ==
    /\ testers[i].pc = "ping"
    /\ ~PingRaises(outcome)
    /\ testers' = [testers EXCEPT ![i] =
                      IF IsHostReachable(outcome)
                      THEN Started(Passed(@), ProbeOrder[2], 2)
                      ELSE Failed(@, 1)]
    /\ UNCHANGED <<host, test_calls, connect_calls, clients, kvars, tvars, gvars, uvars>>

\* the ping raises an exception its `except` does not name: run ends with it
CT_PingRaises(i, outcome) ==
    /\ testers[i].pc = "ping"
    /\ PingRaises(outcome)
    /\ testers' = [testers EXCEPT ![i].pc = "raised"]
    /\ UNCHANGED <<host, test_calls, connect_calls, clients, kvars, tvars, gvars, uvars>>

\* the port check returns
CT_PortReturns(i, outcome) ==
    /\ testers[i].pc = "port"
    /\ testers' = [testers EXCEPT ![i] =
                      IF CheckTcpPort(outcome)
                      THEN Started(Passed(@), ProbeOrder[3], 2)
                      ELSE Failed(@, 2)]
    /\ UNCHANGED <<host, test_calls, connect_calls, clients, kvars, tvars, gvars, uvars>>

\* the Moonraker check returns
CT_MoonrakerReturns(i, outcome) ==
    /\ testers[i].pc = "moonraker"
    /\ testers' = [testers EXCEPT ![i] =
                      IF CheckMoonraker(outcome)
                      THEN Started(Passed(@), ProbeOrder[4], 2)
                      ELSE Failed(@, 1)]
    /\ UNCHANGED <<host, test_calls, connect_calls, clients, kvars, tvars, gvars, uvars>>

\* two progress messages, then `self.success.emit()`
Succeeded(t) ==
    [t EXCEPT !.pc = "returned", !.test_msg = @ + 2, !.success = @ + 1]

\* the Klipper check returns; the slot connect_to_ip, connected to success, is
\* scheduled by the emission
CT_KlipperReturns(i, outcome) ==
    /\ testers[i].pc = "klipper"
    /\ testers' = [testers EXCEPT ![i] =
                      IF CheckKlipper(outcome)
                      THEN Succeeded(Passed(@))
                      ELSE Failed(@, 1)]
    /\ connect_calls' = connect_calls + testers'[i].success
    /\ UNCHANGED <<host, test_calls, clients, kvars, tvars, gvars, uvars>>

\* connect_to_ip: a TCPClient and a KlipperWorker are created for the current
\* host and their run() coroutines are gathered
M_ConnectToIp ==
    /\ connect_calls > 0
    /\ connect_calls' = connect_calls - 1
    /\ clients' = Append(clients, [host |-> host])
    /\ UNCHANGED <<host, test_calls, testers, kvars, tvars, gvars, uvars>>

\* the connection page: tests and the connections they lead to
NextConnect ==
    \/ \E h \in Hosts : M_UpdateHostAndConnect(h)
    \/ M_ConnectionTest
    \/ \E i \in 1..Len(testers) : CT_Run(i)
    \/ \E i \in 1..Len(testers), outcome \in PingOutcomes : CT_PingReturns(i, outcome)
    \/ \E i \in 1..Len(testers), outcome \in PingOutcomes : CT_PingRaises(i, outcome)
    \/ \E i \in 1..Len(testers), outcome \in PortOutcomes : CT_PortReturns(i, outcome)
    \/ \E i \in 1..Len(testers), outcome \in MoonrakerOutcomes :
         CT_MoonrakerReturns(i, outcome)
    \/ \E i \in 1..Len(testers), outcome \in KlipperOutcomes :
         CT_KlipperReturns(i, outcome)
    \/ M_ConnectToIp

\* --------------------------------------------------- G-code position mapper
\* the longest program text, in characters
MaxContentLen == 3

\* an ASCII character, a two-byte and a three-byte character, and three of the
\* line boundaries of str.splitlines: \n, \r and U+2028
Chars == {"G", "e_acute", "ni", "LF", "CR", "LS"}

LineBoundaries == {"LF", "CR", "LS"}

\* len(c.encode('utf-8'))
UTF8Len(c) ==
    CASE c \in {"G", "LF", "CR"} -> 1
      [] c = "e_acute" -> 2
      [] c \in {"ni", "LS"} -> 3

Contents == UNION {[1..n -> Chars] : n \in 0..MaxContentLen}

\* str.splitlines(True) from index i on, `cur` being the line read so far:
\* a line ends after a boundary, \r\n is one boundary, and a text that ends
\* without a boundary ends with an unterminated line
RECURSIVE SplitFrom(_, _, _)
SplitFrom(s, i, cur) ==
    IF i > Len(s) THEN (IF cur = <<>> THEN <<>> ELSE <<cur>>)
    ELSE IF s[i] = "CR" /\ i < Len(s) /\ s[i + 1] = "LF"
         THEN <<cur \o <<"CR", "LF">>>> \o SplitFrom(s, i + 2, <<>>)
    ELSE IF s[i] \in LineBoundaries
         THEN <<Append(cur, s[i])>> \o SplitFrom(s, i + 1, <<>>)
    ELSE SplitFrom(s, i + 1, Append(cur, s[i]))

SplitLines(s) == SplitFrom(s, 1, <<>>)

\* EncodedLen counting characters, `len(line)`
EncodedLen_Chars(line) == Len(line)

\* len(line.encode('utf-8'))
RECURSIVE EncodedLen(_)
EncodedLen(line) ==
    IF line = <<>> THEN 0 ELSE UTF8Len(Head(line)) + EncodedLen(Tail(line))

\* the loop of _build_map from line i on: the offsets appended
RECURSIVE OffsetsFrom(_, _, _)
OffsetsFrom(lines, i, current_byte_offset) ==
    IF i > Len(lines) THEN <<>>
    ELSE <<current_byte_offset>>
         \o OffsetsFrom(lines, i + 1, current_byte_offset + EncodedLen(lines[i]))

\* current_byte_offset when the loop of _build_map ends
RECURSIVE BytesFrom(_, _, _)
BytesFrom(lines, i, current_byte_offset) ==
    IF i > Len(lines) THEN current_byte_offset
    ELSE BytesFrom(lines, i + 1, current_byte_offset + EncodedLen(lines[i]))

\* bisect.bisect_left(a, x, lo, hi)
RECURSIVE BisectLeft(_, _, _, _)
BisectLeft(a, x, lo, hi) ==
    IF lo < hi
    THEN LET mid == (lo + hi) \div 2
         IN  IF a[mid + 1] < x
             THEN BisectLeft(a, x, mid + 1, hi)
             ELSE BisectLeft(a, x, lo, mid)
    ELSE lo

\* bisect.bisect_right(a, x, lo, hi) on the 0-based list a
RECURSIVE BisectRight(_, _, _, _)
BisectRight(a, x, lo, hi) ==
    IF lo < hi
    THEN LET mid == (lo + hi) \div 2
         IN  IF x < a[mid + 1]
             THEN BisectRight(a, x, lo, mid)
             ELSE BisectRight(a, x, mid + 1, hi)
    ELSE lo

\* GetLineNumber without `if target_byte_position < 0: return 1`
GetLineNumber_NoNegativeCheck(p) ==
    Min(BisectRight(line_start_offsets, p, 0, Len(line_start_offsets)),
        total_lines)

\* GetLineNumber returning the 0-based index of the line
GetLineNumber_ZeroBased(p) ==
    IF p < 0 THEN 0
    ELSE Min(BisectRight(line_start_offsets, p, 0, Len(line_start_offsets)),
             total_lines) - 1

\* the value get_line_number(p) returns
GetLineNumber(p) ==
    IF p < 0 THEN 1
    ELSE Min(BisectRight(line_start_offsets, p, 0, Len(line_start_offsets)),
             total_lines)

\* __init__ before _build_map; total_bytes, the argument and the result have
\* no value yet and are not read while mapper_pc says so
GInit(content) ==
    /\ mapper_pc = "init"
    /\ gcode_content = content
    /\ line_start_offsets = <<>>
    /\ total_lines = 0
    /\ total_bytes = 0
    /\ target_byte_position = 0
    /\ line_number = 0

\* _build_map, called by __init__
G_BuildMap ==
    /\ mapper_pc = "init"
    /\ mapper_pc' = "built"
    /\ line_start_offsets' = OffsetsFrom(SplitLines(gcode_content), 1, 0)
    /\ total_lines' = Len(line_start_offsets')
    /\ total_bytes' = BytesFrom(SplitLines(gcode_content), 1, 0)
    /\ UNCHANGED <<gcode_content, target_byte_position, line_number,
                   kvars, tvars, cvars, uvars>>

\* get_line_number(p) on the constructed mapper
G_GetLineNumber(p) ==
    /\ mapper_pc # "init"
    /\ mapper_pc' = "queried"
    /\ target_byte_position' = p
    /\ line_number' = GetLineNumber(p)
    /\ UNCHANGED <<gcode_content, line_start_offsets, total_lines, total_bytes,
                   kvars, tvars, cvars, uvars>>

\* the byte positions asked for: from before the start to past the end
Positions == -1 .. (total_bytes + 1)

\* a mapper is built for a program text and queried
NextMapper ==
    \/ G_BuildMap
    \/ \E p \in Positions : G_GetLineNumber(p)

\* ------------------------------------------------------------------ upload
\* the files put at file_path in one behaviour
MaxFiles == 2

\* what `open` and `requests.post` can do in an upload: the server answers
\* 200, 201 or another status, the request raises a RequestException, or the
\* file cannot be opened (OSError)
UploadOutcomes == {"200", "201", "500", "RequestException", "OSError"}

UInit ==
    /\ local_file = "absent"
    /\ files_written = 0
    /\ upload_result = "none"

\* a G-code file is put at file_path (the file chosen in the file dialog, or
\* the one a caller writes before the upload)
U_WriteFile ==
    /\ files_written < MaxFiles
    /\ files_written' = files_written + 1
    /\ local_file' = "present"
    /\ UNCHANGED <<upload_result, kvars, tvars, cvars, gvars>>

\* how the call ends for an outcome of the try block
UploadEnds(outcome) ==
    CASE outcome \in {"200", "201"} -> "accepted"
      [] outcome = "RequestException" -> "failed"
      [] outcome = "OSError" -> "raised"
      [] OTHER -> "rejected"

\* upload_gcode_to_klipper with os.remove only after an accepted upload
K_UploadGcode_RemoveOnSuccess(outcome) ==
    /\ IF local_file = "absent"
       THEN upload_result' = "missing" /\ UNCHANGED local_file
       ELSE /\ upload_result' = UploadEnds(outcome)
            /\ local_file' = IF UploadEnds(outcome) = "accepted"
                              THEN "absent" ELSE local_file
    /\ UNCHANGED <<files_written, kvars, tvars, cvars, gvars>>

\* upload_gcode_to_klipper(file_path): a synchronous call. It returns at once
\* when the file does not exist; otherwise, whatever the try block does, the
\* finally clause removes the file
K_UploadGcode(outcome) ==
    /\ IF local_file = "absent"
       THEN upload_result' = "missing" /\ UNCHANGED local_file
       ELSE /\ upload_result' = UploadEnds(outcome)
            /\ local_file' = "absent"
    /\ UNCHANGED <<files_written, kvars, tvars, cvars, gvars>>

\* the control client's connection life cycle, and uploads at any time of it
NextUpload ==
    \/ KLifecycle
    \/ U_WriteFile
    \/ \E outcome \in UploadOutcomes : K_UploadGcode(outcome)

\* a notification of the peer, and a frame of the peer that carries the method
\* of a request
EchoFrameIds == {2, 13}

\* the control client with a peer that sends such frames: the life cycle, the
\* listener, the processor, and the requests of the client itself
NextEcho ==
    \/ KLifecycle
    \/ \E i \in EchoFrameIds : K_MessageListener(PeerFrame(i))
    \/ K_DataProcessor
    \/ \E text \in GcodeTexts : K_SendGcode(text)
    \/ K_EmergencyStop
    \/ K_QueryKlipper

\* ---------------------------------------------------------- specifications
Init == KInit /\ TInit /\ CInit /\ GInit(<<>>) /\ UInit

\* the control client alone
Next == KNext

Spec == Init /\ [][Next]_vars

\* the telemetry client alone
NextT == TNext

SpecT == Init /\ [][NextT]_vars

\* The event loop runs every callback that is ready, and every await of run
\* ends: wait_for(..., timeout=2.0) bounds the connection attempt, the sleeps
\* are timed, a task that is done or cancelled wakes asyncio.wait.
TRunStep ==
    (T_Run \/ T_Connected \/ T_ConnectFails \/ T_StartSent \/ T_StartFails
       \/ T_ReceiveExits \/ T_ProcessExits \/ T_WaitReturns \/ T_Sleep)

FairSpecT == SpecT /\ WF_vars(TRunStep)

\* both clients on the one event loop: their connection life cycles and stop()
NextBoth == KLifecycle \/ TLifecycle

SpecBoth == Init /\ [][NextBoth]_vars

\* both clients with sessions that stay up: the command slots, the query task,
\* the samples of the peer and the two processors
NextQueues ==
    \/ K_Run
    \/ K_Connected
    \/ \E text \in GcodeTexts : K_SendGcode(text)
    \/ \E target \in Targets : K_SetTemperature(target)
    \/ K_EmergencyStop
    \/ K_QueryKlipper
    \/ K_DataProcessor
    \/ T_Run
    \/ T_Connected
    \/ T_StartSent
    \/ \E i \in SampleLineIds : T_ReceiveData(Line(i))
    \/ T_ProcessData

SpecQueues == Init /\ [][NextQueues]_vars

\* the meter-count samples
CountLineIds == {6, 7}

\* the telemetry client in a session that stays up: meter-count samples, the
\* clock and set_meter_count_offset()
NextWindow ==
    \/ T_Run
    \/ T_Connected
    \/ T_StartSent
    \/ \E i \in CountLineIds : T_ReceiveData(Line(i))
    \/ T_ProcessData
    \/ T_SetMeterCountOffset
    \/ T_Tick

SpecWindow == Init /\ [][NextWindow]_vars

\* The awaits of KlipperWorker.run end: websockets.connect succeeds, is
\* refused or times out after open_timeout, asyncio.wait wakes when a task is
\* done, and the sleep is timed.
KRunStep ==
    (K_Run \/ K_Connected \/ K_ConnectionRefused \/ K_ConnectTimeout
       \/ K_WaitReturns \/ K_SleepOver)

\* both run() tasks are scheduled by the one event loop
FairSpecBoth == SpecBoth /\ WF_vars(TRunStep) /\ WF_vars(KRunStep)

\* the connection page alone
SpecConnect == Init /\ [][NextConnect]_vars

\* a mapper for any program text of the bounded alphabet
InitMapper ==
    KInit /\ TInit /\ CInit /\ UInit /\ \E content \in Contents : GInit(content)

SpecMapper == InitMapper /\ [][NextMapper]_vars

\* uploads during the life of the control client
SpecUpload == Init /\ [][NextUpload]_vars

SpecEcho == Init /\ [][NextEcho]_vars

\* ------------------------------------------------------------------ claims
Range(seq) == {seq[i] : i \in 1..Len(seq)}

\* a request of the client: a queue item that data_processor writes to the socket
IsRequest(data) == In("method", data) /\ data.method \in OutboundMethods

\* C1: while stop() has not been called, a failed connection attempt (refused,
\* timed out) and the end of a session each make run emit the disconnect status
\* and enter its one sleep; the sleep is followed directly by a new connection
\* attempt; a successful attempt starts the listener and the processor on an
\* open websocket again; and run ends only after stop().
C1_ReconnectsAfterDisconnect ==
    [][ /\ (k_is_running /\ k_pc \in {"connecting", "active"}
              /\ k_pc' \notin {k_pc, "active"})
           => /\ k_pc' = "sleep"
              /\ k_emitted' # <<>>
              /\ k_emitted'[Len(k_emitted')] = StatusReconnect
        /\ (k_is_running /\ k_pc = "sleep" /\ k_pc' # "sleep")
           => k_pc' = "connecting"
        /\ (k_pc = "connecting" /\ k_pc' = "active")
           => /\ listener_task' = "running"
              /\ processor_task' = "running"
              /\ websocket' = "open"
        /\ (k_pc' = "done" => ~k_is_running)
      ]_vars

\* C1 witness: a session has ended, the client is not stopped and a new
\* connection attempt is in flight.
C1_Witness ==
    k_is_running /\ k_pc = "connecting" /\ websocket = "closed" /\ query_tasks > 0

\* C2 (as claimed): TCPClient.run ends only after stop() was called; no
\* connection failure ends it.
C2_RunSurvivesConnectivityErrors ==
    t_pc \in {"done", "crashed"} => t_stop_calls > 0

\* C3 (as claimed): once stop() has been called on the control client no new
\* connection attempt is started and no listener or processor loop is started.
C3_StopPreventsNewLoops ==
    [][ ~k_is_running
        => /\ (k_pc' = "connecting" => k_pc = "connecting")
           /\ (listener_task' = "running" => listener_task = "running")
           /\ (processor_task' = "running" => processor_task = "running")
      ]_vars

\* run of the telemetry client has returned or raised
T_RunEnded == t_pc \in {"done", "crashed"}

\* C4: after stop() on the telemetry client no new connection attempt is
\* started, and run ends (it returns, or raises where C2's defect applies) with
\* neither loop running and no open socket.
C4_StopTerminatesRun ==
    /\ [][ t_stop_calls > 0 => (t_pc' = "connecting" => t_pc = "connecting") ]_vars
    /\ (t_stop_calls > 0)
         ~> (/\ T_RunEnded
             /\ receive_task # "running"
             /\ process_task # "running"
             /\ writer # "open")

\* C4 witness: stop() was called while streaming, and run has returned with
\* both loops cancelled and the socket closed.
C4_Witness ==
    /\ t_stop_calls > 0
    /\ t_pc = "done"
    /\ receive_task = "cancelled"
    /\ process_task = "cancelled"
    /\ writer = "closed"

\* C5: for either client, after any number of stop() calls, whatever existed
\* when they were made, no call has raised and is_running is false.
C5_StopIsIdempotent ==
    /\ ~k_raised
    /\ ~t_raised
    /\ (k_stop_calls > 0 => ~k_is_running)
    /\ (t_stop_calls > 0 => ~t_is_running)

\* C5 witness: both clients were stopped twice before either had run or
\* connected.
C5_Witness ==
    /\ k_stop_calls >= 2 /\ k_pc = "idle" /\ listener_task = "None"
    /\ t_stop_calls >= 2 /\ t_pc = "idle" /\ writer = "unset"
    /\ ~k_is_running /\ ~t_is_running

\* an emergency stop request waits in the queue behind its head
EmergencyStopWaits ==
    \E i \in 2..Len(message_queue) :
        /\ In("method", message_queue[i])
        /\ message_queue[i].method = "printer.emergency_stop"

\* C6 (as claimed): no ordinary request is written to the socket while an
\* emergency stop request that was made is still waiting to be written.
C6_EmergencyStopOvertakes ==
    [][ (/\ K_DataProcessor
         /\ IsRequest(Head(message_queue))
         /\ Head(message_queue).method # "printer.emergency_stop"
         /\ ~SendRaises)
        => ~EmergencyStopWaits
      ]_vars

\* C7 (as claimed): in an Active session no two requests that wait to be
\* written, none of them answered yet, carry the same id.
C7_RequestIdsUnique ==
    (k_pc = "active" /\ websocket = "open" /\ processor_task = "running")
    => \A i, j \in 1..Len(message_queue) :
          (i < j /\ IsRequest(message_queue[i]) /\ IsRequest(message_queue[j]))
          => message_queue[i].id # message_queue[j].id

\* an incoming message of one of the ill shapes: not an object, a
\* notify_gcode_response without params, an error without code or message
IllShaped(data) ==
    \/ data.json # "object"
    \/ In("method", data) /\ data.method = "notify_gcode_response" /\ ~In("params", data)
    \/ ~In("method", data) /\ In("error", data)
         /\ ~({"code", "message"} \subseteq DOMAIN data.error)

\* C8 (as claimed): the processor is still running after it has taken an
\* ill-shaped message from the queue.
C8_IllShapedFramesDropped ==
    [][ (K_DataProcessor /\ IllShaped(Head(message_queue)))
        => processor_task' = "running" ]_vars

\* C9 (as claimed): the processor is still running after a write to the socket
\* has failed.
C9_SendFailureSurvived ==
    [][ (K_DataProcessor /\ IsRequest(Head(message_queue)) /\ SendRaises)
        => processor_task' = "running" ]_vars

\* an ErrorResponse: no method, an error object with code and message
IsErrorResponse(data) ==
    /\ ~In("method", data)
    /\ In("error", data)
    /\ {"code", "message"} \subseteq DOMAIN data.error

\* C10: when the processor handles an ErrorResponse it emits gcode_error with
\* the code and the message of that response, and run, both tasks, the
\* websocket and the published data fields stay as they were.
C10_ErrorResponseReported ==
    [][ (K_DataProcessor /\ IsErrorResponse(Head(message_queue)))
        => /\ \E e \in Range(k_emitted') :
                /\ e.signal = "gcode_error"
                /\ e.value = <<"Error ", Head(message_queue).error.code,
                               ": ", Head(message_queue).error.message>>
           /\ processor_task' = "running"
           /\ listener_task' = listener_task
           /\ k_pc' = k_pc
           /\ k_is_running' = k_is_running
           /\ websocket' = websocket
           /\ published' = published
      ]_vars

\* C10 witness: an error event was just emitted in an Active session whose
\* published fields had been set by an earlier query result.
C10_Witness ==
    /\ \E e \in Range(k_emitted) : e.signal = "gcode_error"
    /\ k_pc = "active"
    /\ listener_task = "running"
    /\ processor_task = "running"
    /\ websocket = "open"
    /\ published # InitData

\* a notify_status_update notification with a payload
IsStatusUpdate(data) ==
    /\ In("method", data)
    /\ data.method = "notify_status_update"
    /\ In("params", data)
    /\ Len(data.params) > 0

\* the published fields a status payload is claimed to give: each field whose
\* key is present takes the payload's value, every other field keeps `prior`
StatusUpdateClaimed(prior, sub_msg) ==
    LET extruder == Get(sub_msg, "extruder", EmptyDict)
        motion == Get(sub_msg, "motion_report", EmptyDict)
        sdcard == Get(sub_msg, "virtual_sdcard", EmptyDict)
    IN  [hotend_temperature |->
             Get(extruder, "temperature", prior.hotend_temperature),
         target_hotend_temperature |->
             Get(extruder, "target", prior.target_hotend_temperature),
         active_feedrate_mms |->
             Get(motion, "live_extruder_velocity", prior.active_feedrate_mms),
         progress |-> Get(sdcard, "progress", prior.progress),
         file_position |-> Get(sdcard, "file_position", prior.file_position)]

\* C11 (as claimed): when the processor handles a notify_status_update, every
\* published field whose key is in the payload takes the payload's value and
\* every other published field keeps its prior value.
C11_StatusUpdatePublished ==
    [][ (K_DataProcessor /\ IsStatusUpdate(Head(message_queue)))
        => published' = StatusUpdateClaimed(published,
                                            Head(message_queue).params[1])
      ]_vars

\* C12 (as claimed): a request other than the subscribe request is written to
\* the socket only after the subscribe request of that session was written.
C12_SubscribeWrittenFirst ==
    [][ (/\ K_DataProcessor
         /\ IsRequest(Head(message_queue))
         /\ ~SendRaises
         /\ Head(message_queue).method # "printer.objects.subscribe")
        => ws_subscribed
      ]_vars

\* `after` is `before` with one item added behind the waiting ones
AddedLast(before, after) ==
    /\ Len(after) = Len(before) + 1
    /\ SubSeq(after, 1, Len(before)) = before

SentTexts == GcodeTexts \cup {"FIRMWARE_RESTART"}

\* C14: a send_gcode(text) call adds exactly one item behind the waiting ones,
\* a printer.gcode.script request whose script is the whole text.
C14_SendGcodeOneRequest ==
    [][ \A text \in SentTexts :
          K_SendGcode(text)
          => /\ AddedLast(message_queue, message_queue')
             /\ LET request == message_queue'[Len(message_queue')]
                IN  /\ request.method = "printer.gcode.script"
                    /\ request.params.script = text
      ]_vars

\* C14 witness: in an Active session the newest queue item is the one request
\* made for a two-line text.
C14_Witness ==
    /\ k_pc = "active"
    /\ message_queue # <<>>
    /\ LET request == message_queue[Len(message_queue)]
       IN  /\ In("method", request)
           /\ request.method = "printer.gcode.script"
           /\ request.params.script = "G28\nG1 X10 F300"

\* C15 (as claimed): the reader is still running after it has read a line that
\* is not valid JSON.
C15_InvalidLineDropped ==
    [][ T_ReceiveData(Line(1)) => receive_task' = "running" ]_vars

\* C16 (as claimed): a failed write of the start line does not stop the
\* client: unless stop() is called, is_running is still true after the write.
C16_StartFailureReconnects ==
    [][ (t_pc = "drain" /\ t_is_running /\ t_stop_calls' = t_stop_calls)
        => t_is_running' ]_vars

\* C17: the step of run that follows the end of either loop leaves neither
\* loop running and the socket closed, and a connection attempt begins only
\* with neither loop running and no open socket.
C17_CleanupBeforeReconnect ==
    [][ /\ (t_pc = "streaming" /\ t_pc' # "streaming")
           => /\ receive_task # "running" \/ process_task # "running"
              /\ receive_task' # "running"
              /\ process_task' # "running"
              /\ writer' = "closed"
        /\ (t_pc # "connecting" /\ t_pc' = "connecting")
           => /\ receive_task # "running"
              /\ process_task # "running"
              /\ writer # "open"
      ]_vars

\* C17 witness: the reader has ended, the processor was cancelled, the socket
\* is closed and the next connection attempt is in flight.
C17_Witness ==
    /\ t_pc = "connecting"
    /\ receive_task = "done"
    /\ process_task = "cancelled"
    /\ writer = "closed"

C20_ZeroBeforeSampleIsNoOp ==
    [][ /\ (T_SetExtrusionForceOffset /\ extrusion_force_raw.nan)
           => extrusion_force_offset' = extrusion_force_offset
        /\ (T_SetMeterCountOffset /\ meter_count_raw.nan)
           => meter_count_offset' = meter_count_offset
      ]_vars

\* C21: set_extrusion_force_offset() called when the latest raw force is r
\* makes the offset r, and a sample whose force equals the offset is published
\* as 0.
C21_ZeroThenSameSampleIsZero ==
    [][ /\ (T_SetExtrusionForceOffset /\ ~extrusion_force_raw.nan)
           => extrusion_force_offset' = extrusion_force_raw
        /\ (/\ T_ProcessData
            /\ In("extrusion_force", Head(queue))
            /\ F(Head(queue).extrusion_force) = extrusion_force_offset)
           => extrusion_force' = F(0)
      ]_vars

\* C21 witness: the offset was set at raw force 12 and a sample 12 processed
\* after that has been published as 0.
C21_Witness ==
    /\ extrusion_force_raw = F(12)
    /\ extrusion_force_offset = F(12)
    /\ extrusion_force = F(0)

\* C22: both offsets are 0 at construction, and a step changes the force
\* offset only if it is a set_extrusion_force_offset() call, the meter-count
\* offset only if it is a set_meter_count_offset() call; samples, disconnects,
\* reconnects and stop() leave both as they are.
C22_OffsetsChangeOnlyOnZero ==
    /\ extrusion_force_offset = F(0)
    /\ meter_count_offset = F(0)
    /\ [][ /\ (extrusion_force_offset' # extrusion_force_offset)
               => T_SetExtrusionForceOffset
           /\ (meter_count_offset' # meter_count_offset)
               => T_SetMeterCountOffset
         ]_vars

\* C22 witness: the force offset set at 10 is still 10 after a later sample,
\* the end of that session, a reconnect and stop().
C22_Witness ==
    /\ extrusion_force_offset = F(10)
    /\ extrusion_force_raw = F(12)
    /\ t_stop_calls > 0
    /\ writer = "closed"
    /\ t_pc = "done"

\* C23: the window of counts and the window of times never hold more than
\* cache_size entries, and a processed meter-count sample becomes the newest
\* entry behind the most recent earlier ones, kept in their order: all of them
\* while the window is not full, all but the oldest once it is.
C23_WindowKeepsMostRecent ==
    /\ [](/\ Len(meter_count_cache) <= cache_size
          /\ Len(time_cache) = Len(meter_count_cache))
    /\ [][ (T_ProcessData /\ In("meter_count", Head(queue)))
           => LET old == Len(meter_count_cache)
                  new == Len(meter_count_cache')
              IN  /\ new = Min(old + 1, cache_size)
                  /\ meter_count_cache'[new] = meter_count'
                  /\ time_cache'[new] = now
                  /\ \A i \in 1..(new - 1) :
                        /\ meter_count_cache'[i] = meter_count_cache[old - (new - 1) + i]
                        /\ time_cache'[i] = time_cache[old - (new - 1) + i]
         ]_vars

\* C23 witness: the window is full of samples taken after the offset was set
\* at raw count 1000; the sample that gave that raw count, processed before
\* them, has been evicted.
C23_Witness ==
    /\ Len(meter_count_cache) = cache_size
    /\ meter_count_offset = F(1000)
    /\ \A i \in 1..(cache_size - 1) :
          meter_count_cache[i] = MeterCount(F(1000), F(1000))
    /\ meter_count_cache[cache_size] = MeterCount(F(0), F(1000))
    /\ time_cache[1] < time_cache[cache_size]

\* C24 (as claimed): while the window holds fewer than cache_size samples the
\* filament velocity is not-a-number.
C24_VelocityNaNBeforeFull ==
    Len(meter_count_cache) < cache_size => filament_velocity.nan

\* (newest.count - oldest.count) / (newest.time - oldest.time) over a full
\* window; a denominator of 0 stands for a quotient that is no finite number
WindowQuotient(counts, times) ==
    LET newest == counts[cache_size]
        oldest == counts[1]
    IN  IF newest.nan \/ oldest.nan THEN NaN
        ELSE [nan |-> FALSE, num |-> newest.num - oldest.num,
              den |-> newest.den * (times[cache_size] - times[1])]

\* C25 (as claimed): after a meter-count sample was processed into a full
\* window the filament velocity is the quotient over the entries now in the
\* window.
C25_VelocityFromCurrentWindow ==
    [][ (/\ T_ProcessData
         /\ In("meter_count", Head(queue))
         /\ Len(meter_count_cache') = cache_size)
        => filament_velocity' = WindowQuotient(meter_count_cache', time_cache')
      ]_vars

\* C26: no step of one client (connect, failure, disconnect, countdown,
\* reconnect, crash, stop) changes any state of the other client, and each
\* client's run moves on from a connection attempt and from its reconnect
\* delay whatever state the other client is in.
C26_ClientsIndependent ==
    /\ [][ kvars' # kvars => tvars' = tvars ]_vars
    /\ (t_pc = "connecting") ~> (t_pc # "connecting")
    /\ (t_pc \in {"sleep3", "sleep2", "sleep1"}) ~> (t_pc \in {"connecting", "done"})
    /\ (k_pc = "connecting") ~> (k_pc # "connecting")
    /\ (k_pc = "sleep") ~> (k_pc \in {"connecting", "done"})

\* C26 witness: the control client is in an Active session while the run of
\* the telemetry client has crashed, and is so again after a reconnect.
C26_Witness ==
    /\ t_pc = "crashed"
    /\ k_pc = "active"
    /\ listener_task = "running"
    /\ processor_task = "running"
    /\ websocket = "open"
    /\ query_tasks > 1

\* the probes of tester t were started in the order of ProbeOrder, each after
\* every earlier one had returned True
StartedInOrder(t) ==
    /\ Len(t.probes) <= Len(ProbeOrder)
    /\ t.probes = SubSeq(ProbeOrder, 1, Len(t.probes))
    /\ \A j \in 1..Len(t.probes) : \A e \in 1..(j - 1) :
         e <= Len(t.results) /\ t.results[e]

\* a probe of tester t returned False: it is the last probe started, run has
\* returned, and the result is failure
ShortCircuited(t) ==
    \A j \in 1..Len(t.results) :
        ~t.results[j] =>
            /\ Len(t.probes) = j
            /\ t.pc = "returned"
            /\ t.fail = 1
            /\ t.success = 0

C28_ExactlyOneTerminalSignal ==
    \A i \in 1..Len(testers) :
        LET t == testers[i]
        IN  IF t.pc \in {"returned", "raised"}
            THEN /\ t.success + t.fail = 1
                 /\ t.success = 1 <=> t.results = <<TRUE, TRUE, TRUE, TRUE>>
            ELSE t.success + t.fail = 0

\* C29: every pair of clients that connect_to_ip has created and started is
\* for a host for which some ConnectionTester has emitted success; in
\* particular no clients exist while no tester has emitted success.
C29_ClientsOnlyAfterSuccess ==
    \A j \in 1..Len(clients) :
        \E i \in 1..Len(testers) :
            /\ testers[i].success = 1
            /\ testers[i].host = clients[j].host

\* the number of bytes of the first n characters of the encoded text s
RECURSIVE PrefixBytes(_, _)
PrefixBytes(s, n) == IF n = 0 THEN 0 ELSE PrefixBytes(s, n - 1) + UTF8Len(s[n])

\* the number of characters in the first n lines
RECURSIVE PrefixChars(_, _)
PrefixChars(lines, n) == IF n = 0 THEN 0 ELSE PrefixChars(lines, n - 1) + Len(lines[n])

\* the byte offset in the encoded program at which line k starts; for k one
\* past the last line, the length of the encoded program
OffsetOfLine(k) ==
    PrefixBytes(gcode_content, PrefixChars(SplitLines(gcode_content), k - 1))

\* C30: for every program text, multi-byte characters included, and every
\* line k, get_line_number(p) is k for every byte position p from the start
\* of line k up to, not including, the start of line k + 1.
C30_RoundTrip ==
    mapper_pc = "queried" =>
        \A k \in 1..Len(SplitLines(gcode_content)) :
            (OffsetOfLine(k) <= target_byte_position
               /\ target_byte_position < OffsetOfLine(k + 1))
            => line_number = k

\* C30 witness: the first line holds a three-byte character, and the position
\* asked for is the start of the second line, byte 4.
C30_Witness ==
    /\ mapper_pc = "queried"
    /\ gcode_content = <<"ni", "LF", "G">>
    /\ target_byte_position = OffsetOfLine(2)
    /\ target_byte_position = 4
    /\ line_number = 2

\* C31: get_line_number(p) returns the number of the last line for a position
\* p greater than the total byte length of the program, and 1 for p < 0; it
\* returns a value in both cases.
C31_OutOfRangePositions ==
    mapper_pc = "queried" =>
        /\ target_byte_position > total_bytes => line_number = total_lines
        /\ target_byte_position < 0 => line_number = 1

\* C31 witness: a program of two lines with a three-byte character is asked
\* for the position one past its end and answers line 2.
C31_Witness ==
    /\ mapper_pc = "queried"
    /\ gcode_content = <<"ni", "LF", "G">>
    /\ total_bytes = 5
    /\ target_byte_position = 6
    /\ line_number = 2

C33_PollTaskOnlyWhileActive ==
    /\ query_tasks <= 1
    /\ k_pc # "active" => query_tasks = 0

\* every item of queue q is still queued, in place, in q2
Kept(q, q2) == Len(q2) >= Len(q) /\ SubSeq(q2, 1, Len(q)) = q

\* C34: while the client is not stopped, a request in message_queue leaves it
\* only as the head that data_processor takes, and is then written to an open
\* socket or reported by a signal; no step discards a queued request, whether
\* it was enqueued during a session, while disconnected or before a reconnect.
C34_NoRequestDiscarded ==
    [][ (k_is_running /\ \E i \in 1..Len(message_queue) : IsRequest(message_queue[i]))
        => \/ Kept(message_queue, message_queue')
           \/ /\ message_queue' = Tail(message_queue)
              /\ IsRequest(Head(message_queue))
                 => (websocket = "open" \/ k_emitted' # <<>>)
      ]_vars

\* the frames the peer sends
FramesOfPeer == {PeerFrame(i) : i \in PeerFrameIds \cup EchoFrameIds}

\* C35: data_processor writes to the socket only requests of the client; an
\* item of the queue that is a frame received from the peer is never written
\* back, whatever its method is.
C35_PeerFramesNotEchoed ==
    [][ (K_DataProcessor /\ Head(message_queue) \in FramesOfPeer)
        => ~WrittenToSocket(Head(message_queue)) ]_vars

\* C36: when the processor handles the result of the status poll (id 2), every
\* published field whose key is in the payload takes the payload's value and
\* every field absent from the payload keeps its prior published value.
C36_AbsentFieldsKept ==
    [][ (/\ K_DataProcessor
         /\ Branch(Head(message_queue)) = "result"
         /\ IsQueryResult(Head(message_queue))
         /\ ~Raises(Head(message_queue)))
        => published' = StatusUpdateClaimed(
                            published,
                            Get(Head(message_queue).result, "status", EmptyDict))
      ]_vars

\* C37: once a force sample has been processed the published extrusion_force
\* is extrusion_force_raw - extrusion_force_offset, and once a meter-count
\* sample has been processed meter_count is the conversion of
\* meter_count_raw - meter_count_offset, in every state, those between a
\* zeroing call and the next sample included.
C37_PublishedIsRawMinusOffset ==
    /\ ~extrusion_force_raw.nan
         => extrusion_force = Sub(extrusion_force_raw, extrusion_force_offset)
    /\ ~meter_count_raw.nan
         => meter_count = MeterCount(meter_count_raw, meter_count_offset)

\* the raw meter counts of the samples, and the offsets there can be: the
\* initial 0.0, a raw count, or the nan of zeroing before any sample
CountRaws == {F(Line(i).meter_count) : i \in CountLineIds}

CountOffsets == {F(0), NaN} \cup CountRaws

\* C38: all entries of meter_count_cache were computed with one and the same
\* meter-count offset, so that their differences, and with them the
\* filament_velocity, do not depend on calls of set_meter_count_offset.
C38_WindowSameOffset ==
    \E offset \in CountOffsets :
        \A i \in 1..Len(meter_count_cache) :
            \E raw \in CountRaws : meter_count_cache[i] = MeterCount(raw, offset)

\* C39: the start offset of every line is the sum of the UTF-8 byte lengths,
\* terminators included, of the lines before it, and for a position p >= 0 not
\* past the end of a program that has lines get_line_number(p) is the greatest
\* 1-based index i with line_start_offsets[i] <= p.
C39_GreatestStartNotAfter ==
    /\ mapper_pc # "init" =>
          \A i \in 1..total_lines : line_start_offsets[i] = OffsetOfLine(i)
    /\ (/\ mapper_pc = "queried"
        /\ total_lines >= 1
        /\ 0 <= target_byte_position
        /\ target_byte_position <= total_bytes)
       => /\ line_number \in 1..total_lines
          /\ line_start_offsets[line_number] <= target_byte_position
          /\ \A i \in (line_number + 1)..total_lines :
                line_start_offsets[i] > target_byte_position

\* C39 witness: the first line is a three-byte character and a newline, four
\* bytes and two characters; byte 3 is still in line 1.
C39_Witness ==
    /\ mapper_pc = "queried"
    /\ gcode_content = <<"ni", "LF", "G">>
    /\ line_start_offsets = <<0, 4>>
    /\ target_byte_position = 3
    /\ line_number = 1

====
